---- MODULE Spec2Model ----
(***************************************************************************)
(* Deadlines (Prazo), notifications (Notificacao), notification            *)
(* preferences (PreferenciaNotificacao), the daily deadline scan and the   *)
(* dispatch sweep of the CRM backend (backend/app).  The database tables   *)
(* are the state; every service / repository method is one action.         *)
(***************************************************************************)
EXTENDS Integers, Sequences, FiniteSets, TLC

(* ----------------------------- bounds ---------------------------------- *)
MaxPrazos == 1
MaxNotifs == 2
MaxAgora == 1
MaxTentativas == 2
MaxScans == 2
MaxDocs == 2

Escritorios == {"e1", "e2"}
Usuarios == {"u1", "u2"}
ProcessoIds == {1, 2}
PrazoIds == 1..MaxPrazos
NotifIds == 1..MaxNotifs
Tempos == 0..MaxAgora
Datas == 0..(MaxAgora + 1)
Workers == {"w1", "w2"}
DocIds == 1..MaxDocs

\* None: "None" where a string is expected, -1 where a number is expected;
\* an optional keyword argument is <<>> (None) or <<value>>
Nulo == "None"
NuloInt == -1
Opt(S) == {<<>>} \cup {<<x>> : x \in S}

(* ----------------------------- enums ----------------------------------- *)
StatusPrazo == {"pendente", "em_andamento", "cumprido", "perdido", "cancelado"}
StatusNotificacao == {"pendente", "enviada", "lida", "falha"}
TipoNotificacao == {"prazo_vencendo", "prazo_hoje", "prazo_vencido",
                    "novo_andamento", "mudanca_fase", "documento_processado",
                    "sistema", "alerta"}
CanalNotificacao == {"push", "email", "sms", "in_app"}
StatusProcessamentoIA == {"pendente", "processando", "concluido", "erro"}

(* settings.NOTIFICATION_DAYS_BEFORE_DEADLINE: a list, not a number *)
NOTIFICATION_DAYS_BEFORE_DEADLINE == <<7, 3, 1, 0>>

(* limit of get_pendentes_envio *)
LimitePendentes == 100

VARIABLES
    agora,          \* datetime.now() / date.today(), one unit per day
    processos,      \* table processos: id -> row
    prazos,         \* table prazos: rows in creation order
    notificacoes,   \* table notificacoes: rows in creation order
    preferencias,   \* table preferencias_notificacao: rows in creation order
    sweep,          \* per worker: the running processar_pendentes call
    envios,         \* log: <<worker, notification, channel>> send calls of the running sweeps
    scans,          \* log: per tenant, how many daily scans were run
    chamadas,       \* per worker: the service call that is between two awaits
    documentos,     \* table documentos: rows in creation order
    ultimo          \* log: the last operation and its outcome

vars == <<agora, processos, prazos, notificacoes, preferencias, sweep,
          envios, scans, chamadas, documentos, ultimo>>

(* ------------------------- generic repository -------------------------- *)
\* A table is the sequence of its rows in creation order; the primary key
\* (uuid4) of a row is its position.
\* get_by_id without the tenant condition (the lookup by primary key alone)
GetByIdSemTenant(tabela, esc, id) == id \in DOMAIN tabela

\* MultiTenantRepository.get_by_id finds a row only if it belongs to the tenant
GetById(tabela, esc, id) ==
    id \in DOMAIN tabela /\ tabela[id].escritorio_id = esc

\* BaseRepository.update: setattr for every keyword whose value is not None
AplicarCampos(row, kwargs) ==
    [k \in DOMAIN row |->
        IF k \in DOMAIN kwargs /\ kwargs[k] # <<>> THEN kwargs[k][1] ELSE row[k]]

\* the record kept in ultimo: operation, calling tenant, target id, outcome
\* ("ok" or the exception raised), the channel senders it invoked, the
\* notification type it chose and the rows its loop body was entered for
Resultado(op, esc, alvo, res) ==
    [op |-> op, esc |-> esc, alvo |-> alvo, resultado |-> res, canais |-> {},
     tipo |-> Nulo, itens |-> {}]

\* no service call in flight
ChamadaOciosa == [op |-> "idle", esc |-> Nulo, usuario |-> Nulo, achadas |-> {},
                  dados |-> <<>>, doc |-> 0]

(* ------------------------------ Prazo ---------------------------------- *)
\* Prazo.dias_restantes
dias_restantes(prazo) ==
    IF prazo.status # "pendente" THEN 0 ELSE prazo.data_fatal - agora

\* Prazo.is_urgente
is_urgente(prazo) == 0 < dias_restantes(prazo) /\ dias_restantes(prazo) <= 3

\* Prazo.is_vencido
is_vencido(prazo) == dias_restantes(prazo) < 0 /\ prazo.status = "pendente"

\* ProcessoService.buscar_processo (GET /processos/{id}): the row of the
\* caller's tenant, or ResourceNotFoundError
buscar_processo(esc, pid) ==
    /\ ultimo' = Resultado("buscar_processo", esc, pid,
                    IF GetById(processos, esc, pid) THEN "ok"
                    ELSE "ResourceNotFoundError")
    /\ UNCHANGED <<agora, processos, prazos, notificacoes, preferencias, sweep,
                   envios, scans, chamadas, documentos>>

\* the HTTP status the endpoints of api/v1/endpoints/processos.py answer with
StatusHTTP(op, resultado) ==
    IF resultado = "ok" THEN 200
    ELSE IF op = "criar_prazo" THEN 400
    ELSE IF resultado = "ResourceNotFoundError" THEN 404
    ELSE 400

\* ProcessoService.arquivar_processo
arquivar_processo(esc, pid) ==
    /\ GetById(processos, esc, pid)
    /\ ~processos[pid].is_archived
    /\ processos' = [processos EXCEPT ![pid].is_archived = TRUE]
    /\ ultimo' = Resultado("arquivar_processo", esc, pid, "ok")
    /\ UNCHANGED <<agora, prazos, notificacoes, preferencias, sweep, envios, scans, chamadas, documentos>>

\* criar_prazo without the is_archived test
criar_prazo_sem_arquivado(esc, pid, data_fatal) ==
    /\ Len(prazos) < MaxPrazos
    /\ IF ~GetById(processos, esc, pid)
       THEN /\ ultimo' = Resultado("criar_prazo", esc, pid, "ResourceNotFoundError")
            /\ UNCHANGED prazos
       ELSE /\ prazos' = Append(prazos,
                            [escritorio_id |-> esc,
                             processo_id |-> pid,
                             status |-> "pendente",
                             data_fatal |-> data_fatal,
                             data_cumprimento |-> NuloInt,
                             cumprido_por_id |-> Nulo])
            /\ ultimo' = Resultado("criar_prazo", esc, pid, "ok")
    /\ UNCHANGED <<agora, processos, notificacoes, preferencias, sweep, envios, scans, chamadas, documentos>>

\* ProcessoService.criar_prazo
criar_prazo(esc, pid, data_fatal) ==
    /\ Len(prazos) < MaxPrazos
    /\ IF ~GetById(processos, esc, pid)
       THEN /\ ultimo' = Resultado("criar_prazo", esc, pid, "ResourceNotFoundError")
            /\ UNCHANGED prazos
       ELSE IF processos[pid].is_archived
       THEN /\ ultimo' = Resultado("criar_prazo", esc, pid, "ProcessoArquivadoError")
            /\ UNCHANGED prazos
       ELSE /\ prazos' = Append(prazos,
                            [escritorio_id |-> esc,
                             processo_id |-> pid,
                             status |-> "pendente",
                             data_fatal |-> data_fatal,
                             data_cumprimento |-> NuloInt,
                             cumprido_por_id |-> Nulo])
            /\ ultimo' = Resultado("criar_prazo", esc, pid, "ok")
    /\ UNCHANGED <<agora, processos, notificacoes, preferencias, sweep, envios, scans, chamadas, documentos>>

\* PrazoUpdate payloads: data_fatal and status are optional (None = not sent)
PrazoUpdate == [data_fatal : Opt(Datas), status : Opt(StatusPrazo)]

\* ProcessoService.atualizar_prazo
atualizar_prazo(esc, id, dados) ==
    /\ IF ~GetById(prazos, esc, id)
       THEN /\ ultimo' = Resultado("atualizar_prazo", esc, id, "ResourceNotFoundError")
            /\ UNCHANGED prazos
       ELSE /\ prazos' = [prazos EXCEPT ![id] = AplicarCampos(prazos[id], dados)]
            /\ ultimo' = Resultado("atualizar_prazo", esc, id, "ok")
    /\ UNCHANGED <<agora, processos, notificacoes, preferencias, sweep, envios, scans, chamadas, documentos>>

\* the status test of cumprir_prazo: only a PENDENTE deadline may be fulfilled
PodeCumprir(prazo) == prazo.status = "pendente"

\* ProcessoService.cumprir_prazo
cumprir_prazo(esc, id, usuario) ==
    /\ IF ~GetById(prazos, esc, id)
       THEN /\ ultimo' = Resultado("cumprir_prazo", esc, id, "ResourceNotFoundError")
            /\ UNCHANGED prazos
       ELSE IF ~PodeCumprir(prazos[id])
       THEN /\ ultimo' = Resultado("cumprir_prazo", esc, id, "BusinessRuleError")
            /\ UNCHANGED prazos
       ELSE /\ prazos' = [prazos EXCEPT ![id] =
                            AplicarCampos(prazos[id],
                                [status |-> <<"cumprido">>,
                                 data_cumprimento |-> <<agora>>,
                                 cumprido_por_id |-> <<usuario>>])]
            /\ ultimo' = Resultado("cumprir_prazo", esc, id, "ok")
    /\ UNCHANGED <<agora, processos, notificacoes, preferencias, sweep, envios, scans, chamadas, documentos>>

\* the passing of time
Tick ==
    /\ agora < MaxAgora
    /\ agora' = agora + 1
    /\ ultimo' = Resultado("tick", Nulo, 0, "ok")
    /\ UNCHANGED <<processos, prazos, notificacoes, preferencias, sweep, envios, scans, chamadas, documentos>>

(* --------------------------- Notificacao ------------------------------- *)
\* the notification types and scheduled times the callers below choose from

\* the names of the mapped attributes of the model class PreferenciaNotificacao
PreferenciaAtributos ==
    {"id", "created_at", "updated_at", "escritorio_id", "usuario_id",
     "push_enabled", "email_enabled", "sms_enabled",
     "prazo_vencendo_enabled", "prazo_hoje_enabled", "prazo_vencido_enabled",
     "novo_andamento_enabled", "mudanca_fase_enabled", "fcm_token", "usuario"}

\* the names of the mapped attributes of the model class Prazo
PrazoAtributos ==
    {"id", "created_at", "updated_at", "escritorio_id", "processo_id", "tipo",
     "descricao", "data_fatal", "data_inicio", "dias_prazo", "status",
     "data_cumprimento", "cumprido_por_id", "notificacao_enviada",
     "observacoes", "processo", "cumprido_por"}

\* NotificacaoRepository.create (MultiTenantRepository.create): the tenant of
\* the repository is stamped on the row, the model defaults fill the rest
NovaNotificacao(esc, usuario, tipo, agendada_para, prazo_id) ==
    [escritorio_id |-> esc,
     usuario_id |-> usuario,
     tipo |-> tipo,
     status |-> "pendente",
     agendada_para |-> agendada_para,
     enviada_em |-> NuloInt,
     lida_em |-> NuloInt,
     tentativas |-> 0,
     erro_envio |-> Nulo,
     prazo_id |-> prazo_id]

repo_create_notificacao(esc, usuario, tipo, agendada_para, prazo_id) ==
    /\ Len(notificacoes) < MaxNotifs
    /\ notificacoes' = Append(notificacoes,
                          NovaNotificacao(esc, usuario, tipo, agendada_para, prazo_id))
    /\ ultimo' = Resultado("repo_create_notificacao", esc, Len(notificacoes) + 1, "ok")
    /\ UNCHANGED <<agora, processos, prazos, preferencias, sweep, envios, scans, chamadas, documentos>>

\* NotificacaoService.criar_notificacao: usuario_id is passed as a keyword and
\* again inside dados.model_dump(), so the call of create raises TypeError
criar_notificacao(esc, usuario) ==
    /\ ultimo' = Resultado("criar_notificacao", esc, 0, "TypeError")
    /\ UNCHANGED <<agora, processos, prazos, notificacoes, preferencias, sweep,
                   envios, scans, chamadas, documentos>>

\* the type chosen by criar_notificacao_prazo from dias_restantes: the test
\* `<= 0` comes before `== 0`, and TipoNotificacao has no member PRAZO_URGENTE
TipoDoServico(dias) ==
    IF dias <= 0 THEN "prazo_vencido"
    ELSE IF dias = 0 THEN "prazo_hoje"
    ELSE IF dias <= 3
         THEN (IF "prazo_urgente" \in TipoNotificacao THEN "prazo_urgente"
               ELSE "AttributeError")
    ELSE "prazo_vencendo"

\* the type chosen by notificar_prazo_urgente_task
TipoDaTarefa(dias) ==
    IF dias <= 0 THEN "prazo_vencido"
    ELSE IF dias = 1 THEN "prazo_hoje"
    ELSE IF "prazo_urgente" \in TipoNotificacao THEN "prazo_urgente"
    ELSE "AttributeError"

\* what follows the choice of the type in both callers: NotificacaoCreate is
\* built without its required field usuario_id, which raises ValidationError
\* before criar_notificacao is called; no row is inserted
GerarNotificacaoPrazo(op, esc, i, tipo) ==
    /\ ultimo' = IF tipo = "AttributeError"
                 THEN Resultado(op, esc, i, "AttributeError")
                 ELSE [Resultado(op, esc, i, "ValidationError") EXCEPT !.tipo = tipo]
    /\ UNCHANGED <<agora, processos, prazos, notificacoes, preferencias, sweep,
                   envios, scans, chamadas, documentos>>

\* NotificacaoService.criar_notificacao_prazo for a PENDENTE deadline of the
\* tenant, called with dias_restantes = prazo.dias_restantes
criar_notificacao_prazo(esc, i) ==
    /\ GetById(prazos, esc, i)
    /\ prazos[i].status = "pendente"
    /\ GerarNotificacaoPrazo("criar_notificacao_prazo", esc, i,
                             TipoDoServico(dias_restantes(prazos[i])))

\* notificar_prazo_urgente_task for a PENDENTE deadline of the tenant
notificar_prazo_urgente_task(esc, i) ==
    /\ GetById(prazos, esc, i)
    /\ prazos[i].status = "pendente"
    /\ GerarNotificacaoPrazo("notificar_prazo_urgente_task", esc, i,
                             TipoDaTarefa(dias_restantes(prazos[i])))

\* NotificacaoRepository.get_pendentes_envio: PENDENTE rows due now, of every
\* tenant, oldest first, at most `limit`
RECURSIVE Filtrar(_, _)
Filtrar(ids, tabela) ==
    IF ids = <<>> THEN <<>>
    ELSE LET n == Head(ids) IN
         IF /\ tabela[n].status = "pendente"
            /\ (tabela[n].agendada_para = NuloInt \/ tabela[n].agendada_para <= agora)
         THEN <<n>> \o Filtrar(Tail(ids), tabela)
         ELSE Filtrar(Tail(ids), tabela)

\* get_pendentes_envio without its WHERE conditions: the oldest rows, whatever
\* their status and scheduled time
get_pendentes_envio_sem_filtro(esc) ==
    SubSeq([i \in 1..Len(notificacoes) |-> i], 1,
           IF Len(notificacoes) < LimitePendentes THEN Len(notificacoes)
           ELSE LimitePendentes)

get_pendentes_envio(esc) ==
    LET todas == Filtrar([i \in 1..Len(notificacoes) |-> i], notificacoes) IN
    SubSeq(todas, 1, IF Len(todas) < LimitePendentes THEN Len(todas) ELSE LimitePendentes)

\* NotificacaoRepository.atualizar_status_envio: one UPDATE by id alone, which
\* sets the status and adds one to tentativas
atualizar_status_envio(id, status, erro) ==
    /\ id \in DOMAIN notificacoes
    /\ notificacoes[id].tentativas < MaxTentativas
    /\ notificacoes' = [notificacoes EXCEPT ![id] =
          [@ EXCEPT !.status = status,
                    !.tentativas = @ + 1,
                    !.enviada_em = IF status = "enviada" THEN agora ELSE @,
                    !.erro_envio = IF status = "falha" /\ erro # Nulo THEN erro ELSE @]]
    /\ ultimo' = Resultado("atualizar_status_envio", Nulo, id, "ok")
    /\ UNCHANGED <<agora, processos, prazos, preferencias, sweep, envios, scans, chamadas, documentos>>

\* NotificacaoRepository.marcar_como_lida: UPDATE ... WHERE id IN ids AND
\* tenant AND user; the status of the row is not part of the condition
repo_marcar_como_lida(esc, ids, usuario) ==
    /\ notificacoes' = [n \in DOMAIN notificacoes |->
          IF /\ n \in ids
             /\ notificacoes[n].escritorio_id = esc
             /\ notificacoes[n].usuario_id = usuario
          THEN [notificacoes[n] EXCEPT !.status = "lida", !.lida_em = agora]
          ELSE notificacoes[n]]
    /\ ultimo' = Resultado("repo_marcar_como_lida", esc, 0, "ok")
    /\ UNCHANGED <<agora, processos, prazos, preferencias, sweep, envios, scans, chamadas, documentos>>

\* NotificacaoRepository.marcar_todas_como_lidas: every row of the user that
\* is not LIDA yet
repo_marcar_todas_como_lidas(esc, usuario) ==
    /\ notificacoes' = [n \in DOMAIN notificacoes |->
          IF /\ notificacoes[n].escritorio_id = esc
             /\ notificacoes[n].usuario_id = usuario
             /\ notificacoes[n].status # "lida"
          THEN [notificacoes[n] EXCEPT !.status = "lida", !.lida_em = agora]
          ELSE notificacoes[n]]
    /\ ultimo' = Resultado("repo_marcar_todas_como_lidas", esc, 0, "ok")
    /\ UNCHANGED <<agora, processos, prazos, preferencias, sweep, envios, scans, chamadas, documentos>>

\* NotificacaoService.marcar_como_lida: calls the repository method without
\* its usuario_id argument, which raises TypeError before any statement runs
marcar_como_lida(esc, id) ==
    /\ ultimo' = Resultado("marcar_como_lida", esc, id, "TypeError")
    /\ UNCHANGED <<agora, processos, prazos, notificacoes, preferencias, sweep,
                   envios, scans, chamadas, documentos>>

\* NotificacaoRepository.get_by_usuario(apenas_nao_lidas=True)
NaoLidas(esc, usuario) ==
    {n \in DOMAIN notificacoes :
        /\ notificacoes[n].escritorio_id = esc
        /\ notificacoes[n].usuario_id = usuario
        /\ notificacoes[n].status # "lida"}

\* NotificacaoService.marcar_todas_como_lidas: the same one-argument call for
\* the first unread row; with no unread row it returns 0
marcar_todas_como_lidas(esc, usuario) ==
    /\ ultimo' = Resultado("marcar_todas_como_lidas", esc, 0,
                    IF NaoLidas(esc, usuario) = {} THEN "ok" ELSE "TypeError")
    /\ UNCHANGED <<agora, processos, prazos, notificacoes, preferencias, sweep,
                   envios, scans, chamadas, documentos>>

(* ---------------------- PreferenciaNotificacao ------------------------- *)
\* PreferenciaNotificacaoUpdate.model_dump(exclude_unset=True): <<>> is a field
\* the caller did not send
PrefPayloads ==
    {[push_enabled |-> p, prazo_vencendo_enabled |-> t, fcm_token |-> f] :
        p \in {<<>>, <<FALSE>>}, t \in {<<>>, <<FALSE>>, <<TRUE>>},
        f \in {<<>>, <<"tok">>}}

\* a new row: the model defaults, overridden by the keywords given
NovaPreferencia(esc, usuario, kwargs) ==
    AplicarCampos([escritorio_id |-> esc,
                   usuario_id |-> usuario,
                   push_enabled |-> TRUE,
                   email_enabled |-> TRUE,
                   sms_enabled |-> FALSE,
                   prazo_vencendo_enabled |-> TRUE,
                   fcm_token |-> Nulo], kwargs)

\* PreferenciaNotificacaoRepository.get_by_usuario: the ids of the matching rows
\* (scalar_one_or_none: none, the one row, or MultipleResultsFound)
PrefsDoUsuario(esc, usuario) ==
    {i \in DOMAIN preferencias :
        /\ preferencias[i].escritorio_id = esc
        /\ preferencias[i].usuario_id = usuario}

\* NotificacaoService.atualizar_preferencias
atualizar_preferencias(esc, usuario, dados) ==
    /\ LET achadas == PrefsDoUsuario(esc, usuario) IN
       IF Cardinality(achadas) > 1
       THEN /\ ultimo' = Resultado("atualizar_preferencias", esc, 0, "MultipleResultsFound")
            /\ UNCHANGED preferencias
       ELSE IF achadas # {}
       THEN LET i == CHOOSE j \in achadas : TRUE IN
            /\ preferencias' = [preferencias EXCEPT ![i] = AplicarCampos(@, dados)]
            /\ ultimo' = Resultado("atualizar_preferencias", esc, i, "ok")
       ELSE /\ preferencias' = Append(preferencias, NovaPreferencia(esc, usuario, dados))
            /\ ultimo' = Resultado("atualizar_preferencias", esc, Len(preferencias) + 1, "ok")
    /\ UNCHANGED <<agora, processos, prazos, notificacoes, sweep, envios, scans, chamadas, documentos>>

\* NotificacaoService.get_preferencias (GET /notificacoes/preferencias): the
\* stored row or None; nothing is created
get_preferencias(esc, usuario) ==
    /\ LET achadas == PrefsDoUsuario(esc, usuario) IN
       ultimo' = IF Cardinality(achadas) > 1
                 THEN Resultado("get_preferencias", esc, 0, "MultipleResultsFound")
                 ELSE IF achadas = {}
                 THEN Resultado("get_preferencias", esc, 0, "None")
                 ELSE Resultado("get_preferencias", esc, CHOOSE j \in achadas : TRUE, "ok")
    /\ UNCHANGED <<agora, processos, prazos, notificacoes, preferencias, sweep,
                   envios, scans, chamadas, documentos>>

\* The preference writers as they run next to each other: each is a read
\* (get_by_usuario), an await, and then a write chosen by what the read found.
OperacoesPreferencia == {"get_or_create", "atualizar_preferencias", "atualizar_fcm_token"}

\* the keywords each writer passes to update / create
DadosDaOperacao(op) ==
    IF op = "atualizar_fcm_token"
    THEN {[push_enabled |-> <<>>, prazo_vencendo_enabled |-> <<>>, fcm_token |-> <<"tok">>]}
    ELSE IF op = "atualizar_preferencias"
    THEN {d \in PrefPayloads : d.fcm_token = <<>> /\ d.prazo_vencendo_enabled = <<>>}
    ELSE {[push_enabled |-> <<>>, prazo_vencendo_enabled |-> <<>>, fcm_token |-> <<>>]}

\* first half: prefs = await self._prefs_repo.get_by_usuario(usuario_id)
PrefLer(w, op, esc, usuario, dados) ==
    /\ chamadas[w].op = "idle"
    /\ LET achadas == PrefsDoUsuario(esc, usuario) IN
       IF Cardinality(achadas) > 1
       THEN /\ ultimo' = Resultado(op, esc, 0, "MultipleResultsFound")
            /\ UNCHANGED chamadas
       ELSE /\ chamadas' = [chamadas EXCEPT ![w] =
                  [op |-> op, esc |-> esc, usuario |-> usuario, achadas |-> achadas,
                   dados |-> <<dados>>, doc |-> 0]]
            /\ ultimo' = Resultado("get_by_usuario", esc, 0, "ok")
    /\ UNCHANGED <<agora, processos, prazos, notificacoes, preferencias, sweep,
                   envios, scans, documentos>>

\* second half: update of the row found, or create when none was found
\* (get_or_create writes only in the second case)
PrefEscrever(w) ==
    /\ chamadas[w].op \in OperacoesPreferencia
    /\ LET c == chamadas[w] IN
       IF c.achadas # {}
       THEN LET i == CHOOSE j \in c.achadas : TRUE IN
            /\ preferencias' =
                  IF c.op = "get_or_create" THEN preferencias
                  ELSE [preferencias EXCEPT ![i] = AplicarCampos(@, c.dados[1])]
            /\ ultimo' = Resultado(c.op, c.esc, i, "ok")
       ELSE /\ preferencias' =
                  Append(preferencias, NovaPreferencia(c.esc, c.usuario, c.dados[1]))
            /\ ultimo' = Resultado(c.op, c.esc, Len(preferencias) + 1, "ok")
    /\ chamadas' = [chamadas EXCEPT ![w] = ChamadaOciosa]
    /\ UNCHANGED <<agora, processos, prazos, notificacoes, sweep, envios, scans,
                   documentos>>

(* --------------------------- daily scan -------------------------------- *)
\* `settings.NOTIFICATION_DAYS_BEFORE_DEADLINE or 7` is the number 7 only when
\* the configured list is empty; otherwise it is the list itself
DiasAntesNumero == NOTIFICATION_DAYS_BEFORE_DEADLINE = <<>>

\* PrazoRepository.get_pendentes: the tenant's PENDENTE deadlines due within
\* dias_futuros days (overdue ones included)
get_pendentes(esc, dias_futuros) ==
    {i \in DOMAIN prazos :
        /\ prazos[i].escritorio_id = esc
        /\ prazos[i].status = "pendente"
        /\ prazos[i].data_fatal <= agora + dias_futuros}

\* how verificar_prazos_e_notificar ends: date.today() + timedelta(days=<list>)
\* raises TypeError; with a number, the first deadline listed raises
\* AttributeError at prazo.responsavel_id, which Prazo does not have; past
\* that, criar_notificacao_prazo ends in the TypeError of criar_notificacao
ScanResultado(esc) ==
    IF ~DiasAntesNumero THEN "TypeError"
    ELSE IF get_pendentes(esc, 7) = {} THEN "ok"
    ELSE IF "responsavel_id" \notin PrazoAtributos THEN "AttributeError"
    ELSE "TypeError"

\* the rows one sweep of the deadline list would insert, one per deadline and
\* without any lookup of existing rows, if nothing raised on the way
NotificacoesSemErro(esc) ==
    LET ids == get_pendentes(esc, 7)
        F[k \in 0..Len(prazos)] ==
            IF k = 0 THEN <<>>
            ELSE IF k \in ids
                 THEN Append(F[k - 1],
                        NovaNotificacao(esc, "u1", "prazo_vencendo", NuloInt, k))
                 ELSE F[k - 1]
    IN F[Len(prazos)]

\* the rows verificar_prazos_e_notificar inserts before it returns or raises:
\* every path to the insert raises first
NotificacoesDoScan(esc) == <<>>

\* the deadlines for which the body of the scan's loop was entered: none when
\* the list was never fetched; otherwise the first of the list (by data_fatal),
\* where the exception leaves the loop, which has no try / except
ItensDoScan(esc) ==
    LET ids == get_pendentes(esc, 7) IN
    IF ~DiasAntesNumero \/ ids = {} THEN {}
    ELSE {CHOOSE i \in ids : \A j \in ids : prazos[i].data_fatal <= prazos[j].data_fatal}

\* verificar_prazos_e_notificar
verificar_prazos_e_notificar(esc) ==
    /\ scans[esc] < MaxScans
    /\ scans' = [scans EXCEPT ![esc] = @ + 1]
    /\ notificacoes' = notificacoes \o NotificacoesDoScan(esc)
    /\ ultimo' = [Resultado("verificar_prazos_e_notificar", esc, 0, ScanResultado(esc))
                     EXCEPT !.itens = ItensDoScan(esc)]
    /\ UNCHANGED <<agora, processos, prazos, preferencias, sweep, envios, chamadas, documentos>>

(* ------------------------- dispatch sweep ------------------------------ *)
SweepOcioso ==
    [pc |-> "idle", escritorio_id |-> Nulo, pendentes |-> <<>>, processadas |-> {}]

\* NotificacaoService._tipo_ativo reads prefs.tipos_ativos, an attribute the
\* model class does not have (it has one <tipo>_enabled column per type)
tipo_ativo(tipo, pref) ==
    IF "tipos_ativos" \notin PreferenciaAtributos THEN "AttributeError" ELSE "True"

\* NotificacaoService._enviar_notificacao for notification n in a sweep of
\* tenant esc: the exception raised ("ok" if none), the channel senders called
\* and the status written by its own update (Nulo: no update).  Without a
\* preference row it calls _enviar_in_app and returns without an update.
enviar_notificacao(esc, n) ==
    LET achadas == PrefsDoUsuario(esc, notificacoes[n].usuario_id) IN
    IF Cardinality(achadas) > 1
    THEN [resultado |-> "MultipleResultsFound", canais |-> {}, status |-> Nulo]
    ELSE IF achadas = {}
    THEN [resultado |-> "ok", canais |-> {"in_app"}, status |-> Nulo]
    ELSE LET ativo == tipo_ativo(notificacoes[n].tipo,
                                 preferencias[CHOOSE j \in achadas : TRUE]) IN
         IF ativo = "AttributeError"
         THEN [resultado |-> "AttributeError", canais |-> {}, status |-> Nulo]
         ELSE IF ativo = "False"
         THEN [resultado |-> "ok", canais |-> {}, status |-> "enviada"]
         ELSE IF "canais_ativos" \notin PreferenciaAtributos
         THEN [resultado |-> "AttributeError", canais |-> {}, status |-> Nulo]
         ELSE [resultado |-> "ok", canais |-> {"in_app"}, status |-> "enviada"]

\* processar_pendentes, first statement: the batch is selected
SweepSelect(w, esc) ==
    /\ sweep[w].pc = "idle"
    /\ sweep' = [sweep EXCEPT ![w] =
          [pc |-> "running", escritorio_id |-> esc,
           pendentes |-> get_pendentes_envio(esc), processadas |-> {}]]
    /\ ultimo' = Resultado("get_pendentes_envio", esc, 0, "ok")
    /\ UNCHANGED <<agora, processos, prazos, notificacoes, preferencias, envios, scans, chamadas, documentos>>

\* one turn of the loop without the try / except around _enviar_notificacao:
\* an exception leaves processar_pendentes and the rest of the batch
SweepProcessSemTry(w) ==
    /\ sweep[w].pc = "running"
    /\ sweep[w].pendentes # <<>>
    /\ LET n == Head(sweep[w].pendentes)
           esc == sweep[w].escritorio_id
           r == enviar_notificacao(esc, n)
       IN /\ notificacoes' =
                IF r.resultado = "ok" /\ r.status # Nulo /\ GetById(notificacoes, esc, n)
                THEN [notificacoes EXCEPT ![n] =
                        [@ EXCEPT !.status = r.status,
                                  !.enviada_em = IF r.status = "enviada" THEN agora ELSE @]]
                ELSE notificacoes
          /\ envios' = IF r.resultado = "ok"
                       THEN envios \cup {<<w, n, c>> : c \in r.canais}
                       ELSE {x \in envios : x[1] # w}
          /\ sweep' = IF r.resultado = "ok"
                      THEN [sweep EXCEPT ![w].pendentes = Tail(@),
                                         ![w].processadas = @ \cup {n}]
                      ELSE [sweep EXCEPT ![w] = SweepOcioso]
          /\ ultimo' = IF r.resultado = "ok"
                       THEN [Resultado("_enviar_notificacao", esc, n, r.resultado)
                                EXCEPT !.canais = r.canais]
                       ELSE Resultado("processar_pendentes", esc, n, r.resultado)
    /\ UNCHANGED <<agora, processos, prazos, preferencias, scans, chamadas, documentos>>

\* processar_pendentes, one turn of the loop: _enviar_notificacao, and on any
\* exception self._repo.update(id, status=FALHA) through the tenant filter
SweepProcess(w) ==
    /\ sweep[w].pc = "running"
    /\ sweep[w].pendentes # <<>>
    /\ LET n == Head(sweep[w].pendentes)
           esc == sweep[w].escritorio_id
           r == enviar_notificacao(esc, n)
           novo == IF r.resultado # "ok" THEN "falha" ELSE r.status
       IN /\ notificacoes' =
                IF novo # Nulo /\ GetById(notificacoes, esc, n)
                THEN [notificacoes EXCEPT ![n] =
                        [@ EXCEPT !.status = novo,
                                  !.enviada_em = IF novo = "enviada" THEN agora ELSE @]]
                ELSE notificacoes
          /\ envios' = envios \cup {<<w, n, c>> : c \in r.canais}
          /\ sweep' = [sweep EXCEPT ![w].pendentes = Tail(@),
                                    ![w].processadas = @ \cup {n}]
          /\ ultimo' = [Resultado("_enviar_notificacao", esc, n, r.resultado)
                            EXCEPT !.canais = r.canais]
    /\ UNCHANGED <<agora, processos, prazos, preferencias, scans, chamadas, documentos>>

\* processar_pendentes returns
SweepFinish(w) ==
    /\ sweep[w].pc = "running"
    /\ sweep[w].pendentes = <<>>
    /\ sweep' = [sweep EXCEPT ![w] = SweepOcioso]
    /\ envios' = {x \in envios : x[1] # w}
    /\ ultimo' = Resultado("processar_pendentes", sweep[w].escritorio_id, 0, "ok")
    /\ UNCHANGED <<agora, processos, prazos, notificacoes, preferencias, scans, chamadas, documentos>>

(* --------------------------- initial state ----------------------------- *)

Init ==
    /\ agora = 0
    /\ processos = [p \in ProcessoIds |->
                      [escritorio_id |-> IF p = 1 THEN "e1" ELSE "e2",
                       is_archived |-> FALSE]]
    /\ prazos = <<>>
    /\ notificacoes = <<>>
    /\ preferencias = <<>>
    /\ sweep = [w \in Workers |-> SweepOcioso]
    /\ envios = {}
    /\ scans = [e \in Escritorios |-> 0]
    /\ chamadas = [w \in Workers |-> ChamadaOciosa]
    /\ documentos = <<>>
    /\ ultimo = Resultado("init", Nulo, 0, "ok")

(* ---------------- the deadline registry on its own --------------------- *)
NextPrazo ==
    \/ Tick
    \/ \E e \in Escritorios, p \in ProcessoIds : arquivar_processo(e, p)
    \/ \E e \in Escritorios, p \in ProcessoIds, d \in Datas : criar_prazo(e, p, d)
    \/ \E e \in Escritorios, i \in PrazoIds, dados \in PrazoUpdate :
          atualizar_prazo(e, i, dados)
    \/ \E e \in Escritorios, i \in PrazoIds, u \in Usuarios : cumprir_prazo(e, i, u)

SpecPrazo == Init /\ [][NextPrazo]_vars

(* --------------- notifications, preferences and sweeps ----------------- *)
\* every user belongs to one tenant (Usuario.escritorio_id); the callers
\* create notifications and preferences for a user inside the user's tenant
EscritorioDe(u) == IF u = "u1" THEN "e1" ELSE "e2"

PrefPayloadsEnvio ==
    {d \in PrefPayloads : d.push_enabled = <<>> /\ d.fcm_token = <<>>
                          /\ d.prazo_vencendo_enabled # <<TRUE>>}

NextEnvio ==
    \/ \E u \in Usuarios, a \in {NuloInt, MaxAgora + 1} :
          repo_create_notificacao(EscritorioDe(u), u, "prazo_vencendo", a, NuloInt)
    \/ \E u \in Usuarios, d \in PrefPayloadsEnvio :
          atualizar_preferencias(EscritorioDe(u), u, d)
    \/ \E w \in Workers, e \in Escritorios : SweepSelect(w, e)
    \/ \E w \in Workers : SweepProcess(w)
    \/ \E w \in Workers : SweepFinish(w)

SpecEnvio == Init /\ [][NextEnvio]_vars

(* --------- a deadline that closes while its notification waits --------- *)
NextSubstituida ==
    \/ criar_prazo("e1", 1, MaxAgora + 1)
    \/ \E i \in PrazoIds : cumprir_prazo("e1", i, "u1")
    \/ \E i \in PrazoIds :
          atualizar_prazo("e1", i, [data_fatal |-> <<>>, status |-> <<"cancelado">>])
    \/ \E p \in {i \in DOMAIN prazos : prazos[i].status = "pendente"} :
          repo_create_notificacao("e1", "u1", "prazo_vencendo", NuloInt, p)
    \/ \E d \in PrefPayloadsEnvio : atualizar_preferencias("e1", "u1", d)
    \/ SweepSelect("w1", "e1")
    \/ SweepProcess("w1")
    \/ SweepFinish("w1")
    \/ Tick

SpecSubstituida == Init /\ [][NextSubstituida]_vars

(* ------------------- read tracking and send status --------------------- *)
NextLeitura ==
    \/ \E u \in Usuarios :
          repo_create_notificacao(EscritorioDe(u), u, "sistema", NuloInt, NuloInt)
    \/ \E i \in NotifIds, st \in {"enviada", "falha"} :
          atualizar_status_envio(i, st, IF st = "falha" THEN "timeout" ELSE Nulo)
    \/ \E e \in Escritorios, ids \in (SUBSET NotifIds) \ {{}}, u \in Usuarios :
          repo_marcar_como_lida(e, ids, u)
    \/ \E e \in Escritorios, u \in Usuarios : repo_marcar_todas_como_lidas(e, u)
    \/ \E e \in Escritorios, i \in NotifIds : marcar_como_lida(e, i)
    \/ \E e \in Escritorios, u \in Usuarios : marcar_todas_como_lidas(e, u)
    \/ Tick

SpecLeitura == Init /\ [][NextLeitura]_vars

(* ------------------- the daily scan and the deadlines ------------------ *)
NextScan ==
    \/ Tick
    \/ \E e \in Escritorios, p \in ProcessoIds, d \in Datas : criar_prazo(e, p, d)
    \/ \E e \in Escritorios, i \in PrazoIds, u \in Usuarios : cumprir_prazo(e, i, u)
    \/ \E e \in Escritorios, u \in Usuarios : criar_notificacao(e, u)
    \/ \E e \in Escritorios : verificar_prazos_e_notificar(e)

SpecScan == Init /\ [][NextScan]_vars

(* ------------- channel choice and preferences of one user -------------- *)
NextCanais ==
    \/ repo_create_notificacao("e1", "u1", "prazo_vencendo", NuloInt, NuloInt)
    \/ \E d \in PrefPayloads : atualizar_preferencias("e1", "u1", d)
    \/ \E u \in Usuarios : get_preferencias(EscritorioDe(u), u)
    \/ SweepSelect("w1", "e1")
    \/ SweepProcess("w1")
    \/ SweepFinish("w1")

SpecCanais == Init /\ [][NextCanais]_vars

(* ------------------ cases, their deadlines and lookups ----------------- *)
\* the ids a caller may ask for: the stored ones and one that no row has
ProcessoIdsPedidos == ProcessoIds \cup {Cardinality(ProcessoIds) + 1}

NextCadastro ==
    \/ \E e \in Escritorios, p \in ProcessoIds : arquivar_processo(e, p)
    \/ \E e \in Escritorios, p \in ProcessoIdsPedidos : buscar_processo(e, p)
    \/ \E e \in Escritorios, p \in ProcessoIdsPedidos :
          criar_prazo(e, p, MaxAgora + 1)
    \/ \E e \in Escritorios, i \in PrazoIds : cumprir_prazo(e, i, "u1")
    \/ \E e \in Escritorios, i \in PrazoIds :
          atualizar_prazo(e, i, [data_fatal |-> <<0>>, status |-> <<>>])

SpecCadastro == Init /\ [][NextCadastro]_vars

(* ------------- the daily scan against the alert thresholds ------------- *)
\* the configured thresholds as a set
Limiares ==
    {NOTIFICATION_DAYS_BEFORE_DEADLINE[k] : k \in DOMAIN NOTIFICATION_DAYS_BEFORE_DEADLINE}

\* due dates three and five days after the first day
DatasLimiar == {3, 5}

NextLimiar ==
    \/ Tick
    \/ \E d \in DatasLimiar : criar_prazo("e1", 1, d)
    \/ \E i \in PrazoIds :
          atualizar_prazo("e1", i, [data_fatal |-> <<>>, status |-> <<"em_andamento">>])
    \/ \E e \in Escritorios : verificar_prazos_e_notificar(e)

SpecLimiar == Init /\ [][NextLimiar]_vars

(* ------------- the type of a generated deadline notification ----------- *)
NextFabrica ==
    \/ Tick
    \/ \E e \in Escritorios, p \in ProcessoIds, d \in Datas : criar_prazo(e, p, d)
    \/ \E e \in Escritorios, i \in PrazoIds, d \in Datas :
          atualizar_prazo(e, i, [data_fatal |-> <<d>>, status |-> <<>>])
    \/ \E e \in Escritorios, i \in PrazoIds, u \in Usuarios : cumprir_prazo(e, i, u)
    \/ \E e \in Escritorios, i \in PrazoIds : criar_notificacao_prazo(e, i)
    \/ \E e \in Escritorios, i \in PrazoIds : notificar_prazo_urgente_task(e, i)

SpecFabrica == Init /\ [][NextFabrica]_vars

(* ------------- the daily scan of a tenant with two deadlines ----------- *)
\* a tenant that already holds two PENDENTE deadlines, due today and tomorrow
InitVarredura ==
    /\ agora = 0
    /\ processos = [p \in ProcessoIds |->
                      [escritorio_id |-> IF p = 1 THEN "e1" ELSE "e2",
                       is_archived |-> FALSE]]
    /\ prazos = [k \in 1..2 |->
                   [escritorio_id |-> "e1",
                    processo_id |-> 1,
                    status |-> "pendente",
                    data_fatal |-> k - 1,
                    data_cumprimento |-> NuloInt,
                    cumprido_por_id |-> Nulo]]
    /\ notificacoes = <<>>
    /\ preferencias = <<>>
    /\ sweep = [w \in Workers |-> SweepOcioso]
    /\ envios = {}
    /\ scans = [e \in Escritorios |-> 0]
    /\ chamadas = [w \in Workers |-> ChamadaOciosa]
    /\ documentos = <<>>
    /\ ultimo = Resultado("init", Nulo, 0, "ok")

NextVarredura ==
    \/ Tick
    \/ \E i \in DOMAIN prazos, u \in Usuarios : cumprir_prazo("e1", i, u)
    \/ \E e \in Escritorios : verificar_prazos_e_notificar(e)

SpecVarredura == InitVarredura /\ [][NextVarredura]_vars

(* ------------ a sweep next to mark-read and scheduled rows -------------- *)
\* the payload that sends no field: it creates the row with the defaults
PrefPayloadVazio ==
    [push_enabled |-> <<>>, prazo_vencendo_enabled |-> <<>>, fcm_token |-> <<>>]

NextLida ==
    \/ Tick
    \/ \E a \in {NuloInt, MaxAgora} :
          repo_create_notificacao("e1", "u1", "sistema", a, NuloInt)
    \/ atualizar_preferencias("e1", "u1", PrefPayloadVazio)
    \/ \E i \in NotifIds : repo_marcar_como_lida("e1", {i}, "u1")
    \/ SweepSelect("w1", "e1")
    \/ SweepProcess("w1")
    \/ SweepFinish("w1")

SpecLida == Init /\ [][NextLida]_vars

(* ------------- preference writers running next to each other ----------- *)
NextPrefs ==
    \/ \E w \in Workers, op \in OperacoesPreferencia, u \in Usuarios :
          \E d \in DadosDaOperacao(op) : PrefLer(w, op, EscritorioDe(u), u, d)
    \/ \E w \in Workers : PrefEscrever(w)

SpecPrefs == Init /\ [][NextPrefs]_vars

(* ------------- the sweep run again and again by the beat --------------- *)
\* beat_schedule starts enviar_notificacoes_task every minute: a sweep that
\* can start does start, and a running sweep goes on to its end
JusticaDoSweep ==
    /\ WF_vars(SweepSelect("w1", "e1"))
    /\ WF_vars(SweepProcess("w1"))
    /\ WF_vars(SweepFinish("w1"))

SpecJusto == Init /\ [][NextCanais]_vars /\ JusticaDoSweep

(* ------------------------ document processing -------------------------- *)
\* DocumentoService.upload_documento: the new row has the column defaults
\* status_ia = PENDENTE and is_active = True
upload_documento(esc) ==
    /\ Len(documentos) < MaxDocs
    /\ documentos' = Append(documentos,
          [escritorio_id |-> esc, status_ia |-> "pendente", is_active |-> TRUE])
    /\ ultimo' = Resultado("upload_documento", esc, Len(documentos) + 1, "ok")
    /\ UNCHANGED <<agora, processos, prazos, notificacoes, preferencias, sweep,
                   envios, scans, chamadas>>

\* DocumentoService.excluir_documento: buscar_documento, then soft_delete
excluir_documento(esc, id) ==
    /\ IF ~GetById(documentos, esc, id)
       THEN /\ ultimo' = Resultado("excluir_documento", esc, id,
                                   "ResourceNotFoundError")
            /\ UNCHANGED documentos
       ELSE /\ documentos' = [documentos EXCEPT ![id].is_active = FALSE]
            /\ ultimo' = Resultado("excluir_documento", esc, id, "ok")
    /\ UNCHANGED <<agora, processos, prazos, notificacoes, preferencias, sweep,
                   envios, scans, chamadas>>

\* DocumentoRepository.atualizar_status_ia: UPDATE ... WHERE id and tenant
atualizar_status_ia(tabela, esc, id, status) ==
    IF GetById(tabela, esc, id)
    THEN [tabela EXCEPT ![id].status_ia = status]
    ELSE tabela

\* how the work between the two status writes of processar_com_ia ends:
\* download and extraction succeed, the extraction raises AIServiceError,
\* or StorageService.download_file raises StorageError
Desfechos == {"ok", "AIServiceError", "StorageError"}

\* processar_com_ia up to its first commit: buscar_documento, the early
\* return for CONCLUIDO, then status_ia = PROCESSANDO.  `op` is the caller and
\* `resto` the documents the caller still has to go through.
ProcessarComeco(w, op, esc, id, resto) ==
    IF ~GetById(documentos, esc, id)
    THEN /\ ultimo' = Resultado(op, esc, id, "ResourceNotFoundError")
         /\ chamadas' = [chamadas EXCEPT ![w] =
               IF op = "processar_documento_ia" THEN ChamadaOciosa
               ELSE [@ EXCEPT !.achadas = resto]]
         /\ UNCHANGED documentos
    ELSE IF documentos[id].status_ia = "concluido"
    THEN /\ ultimo' = Resultado(op, esc, id, "ok")
         /\ chamadas' = [chamadas EXCEPT ![w] =
               IF op = "processar_documento_ia" THEN ChamadaOciosa
               ELSE [@ EXCEPT !.achadas = resto]]
         /\ UNCHANGED documentos
    ELSE /\ documentos' = atualizar_status_ia(documentos, esc, id, "processando")
         /\ chamadas' = [chamadas EXCEPT ![w] =
               [op |-> op, esc |-> esc, usuario |-> Nulo, achadas |-> resto,
                dados |-> <<>>, doc |-> id]]
         /\ ultimo' = Resultado("processar_com_ia", esc, id, "processando")

\* POST /documentos/{id}/processar
processar_documento_ia(w, esc, id) ==
    /\ chamadas[w].op = "idle"
    /\ ProcessarComeco(w, "processar_documento_ia", esc, id, {})
    /\ UNCHANGED <<agora, processos, prazos, notificacoes, preferencias, sweep,
                   envios, scans>>

\* processar_documentos_pendentes_task, the query: active documents of every
\* tenant whose status_ia is PENDENTE
DocumentosPendentes ==
    {i \in DOMAIN documentos :
        documentos[i].status_ia = "pendente" /\ documentos[i].is_active}

PendentesSelect(w) ==
    /\ chamadas[w].op = "idle"
    /\ chamadas' = [chamadas EXCEPT ![w] =
          [op |-> "processar_documentos_pendentes_task", esc |-> Nulo,
           usuario |-> Nulo, achadas |-> DocumentosPendentes, dados |-> <<>>,
           doc |-> 0]]
    /\ ultimo' = Resultado("processar_documentos_pendentes_task", Nulo, 0, "ok")
    /\ UNCHANGED <<agora, processos, prazos, notificacoes, preferencias, sweep,
                   envios, scans, documentos>>

\* the loop body of the task: processar_com_ia for the next selected document,
\* under the document's own tenant
PendentesProcess(w) ==
    /\ chamadas[w].op = "processar_documentos_pendentes_task"
    /\ chamadas[w].doc = 0
    /\ \E id \in chamadas[w].achadas :
          ProcessarComeco(w, "processar_documentos_pendentes_task",
                          documentos[id].escritorio_id, id,
                          chamadas[w].achadas \ {id})
    /\ UNCHANGED <<agora, processos, prazos, notificacoes, preferencias, sweep,
                   envios, scans>>

PendentesFinish(w) ==
    /\ chamadas[w].op = "processar_documentos_pendentes_task"
    /\ chamadas[w].doc = 0
    /\ chamadas[w].achadas = {}
    /\ chamadas' = [chamadas EXCEPT ![w] = ChamadaOciosa]
    /\ ultimo' = Resultado("processar_documentos_pendentes_task", Nulo, 0, "fim")
    /\ UNCHANGED <<agora, processos, prazos, notificacoes, preferencias, sweep,
                   envios, scans, documentos>>

\* processar_com_ia after PROCESSANDO was committed.  Success writes CONCLUIDO
\* through BaseRepository.update.  The AIServiceError handler calls
\* atualizar_status_ia(..., erro=...), a keyword the repository method does not
\* take: TypeError, nothing written.  StorageError is not an AIServiceError:
\* no handler, nothing written.  The task swallows the exception and goes on;
\* the endpoint lets it out.
ProcessarFim(w, desfecho) ==
    /\ chamadas[w].op \in {"processar_documento_ia",
                           "processar_documentos_pendentes_task"}
    /\ chamadas[w].doc # 0
    /\ LET c == chamadas[w] IN
       /\ documentos' =
             IF desfecho = "ok" /\ GetById(documentos, c.esc, c.doc)
             THEN [documentos EXCEPT ![c.doc].status_ia = "concluido"]
             ELSE documentos
       /\ ultimo' = Resultado("processar_com_ia", c.esc, c.doc,
             CASE desfecho = "ok" -> "ok"
               [] desfecho = "AIServiceError" -> "TypeError"
               [] OTHER -> "StorageError")
       /\ chamadas' = [chamadas EXCEPT ![w] =
             IF c.op = "processar_documento_ia" THEN ChamadaOciosa
             ELSE [@ EXCEPT !.doc = 0]]
    /\ UNCHANGED <<agora, processos, prazos, notificacoes, preferencias, sweep,
                   envios, scans>>

NextDocumentos ==
    \/ \E e \in Escritorios : upload_documento(e)
    \/ \E e \in Escritorios, id \in DocIds : excluir_documento(e, id)
    \/ \E w \in Workers, e \in Escritorios, id \in DocIds :
          processar_documento_ia(w, e, id)
    \/ \E w \in Workers : PendentesSelect(w)
    \/ \E w \in Workers : PendentesProcess(w)
    \/ \E w \in Workers : PendentesFinish(w)
    \/ \E w \in Workers, d \in Desfechos : ProcessarFim(w, d)

\* the beat starts processar_documentos_pendentes_task every 300 s and a
\* running task or request goes on to its end
JusticaDoProcessamento ==
    /\ WF_vars(PendentesSelect("w1"))
    /\ \A w \in Workers :
          /\ WF_vars(PendentesProcess(w))
          /\ WF_vars(PendentesFinish(w))
          /\ WF_vars(\E d \in Desfechos : ProcessarFim(w, d))

SpecDocumentos == Init /\ [][NextDocumentos]_vars /\ JusticaDoProcessamento


(* ============================== claims ================================= *)

\* C1: when two sweeps run concurrently over the same PENDING notification,
\* channel delivery of it is attempted by exactly one of the two sweeps.
C1_UmaEntrega ==
    \A n \in DOMAIN notificacoes :
        (\A w \in Workers : n \in sweep[w].processadas)
            => Cardinality({w \in Workers : \E c \in CanalNotificacao :
                                <<w, n, c>> \in envios}) = 1

C3_Substituida ==
    (/\ ultimo.op = "_enviar_notificacao"
     /\ notificacoes[ultimo.alvo].prazo_id # NuloInt
     /\ prazos[notificacoes[ultimo.alvo].prazo_id].status \in {"cumprido", "cancelado"})
        => /\ notificacoes[ultimo.alvo].status = "falha"
           /\ notificacoes[ultimo.alvo].erro_envio = "superseded"
           /\ ultimo.canais = {}

\* C4: a notification becomes FALHA only at the fifth failed sweep, not
\* earlier: a FALHA notification has at least five recorded attempts.
C4_FalhaSoNaQuintaTentativa ==
    \A n \in DOMAIN notificacoes :
        notificacoes[n].status = "falha" => notificacoes[n].tentativas >= 5

\* C5: after one successful cumprir_prazo of a deadline, every later
\* cumprir_prazo of it by its tenant fails with the business-rule error and
\* leaves the row as it was.
C5_SegundoCumprirFalha ==
    [][\A i \in DOMAIN prazos :
          (/\ prazos[i].data_cumprimento # NuloInt
           /\ ultimo'.op = "cumprir_prazo"
           /\ ultimo'.alvo = i
           /\ ultimo'.esc = prazos[i].escritorio_id)
              => (ultimo'.resultado = "BusinessRuleError" /\ prazos'[i] = prazos[i])]_vars

\* C6: a stored deadline status changes only PENDENTE -> EM_ANDAMENTO /
\* CUMPRIDO / CANCELADO or EM_ANDAMENTO -> CUMPRIDO / CANCELADO, and never
\* becomes PERDIDO.
C6_TransicoesDeStatus ==
    [][\A i \in DOMAIN prazos :
          /\ prazos'[i].status # "perdido"
          /\ prazos'[i].status # prazos[i].status =>
                \/ /\ prazos[i].status = "pendente"
                   /\ prazos'[i].status \in {"em_andamento", "cumprido", "cancelado"}
                \/ /\ prazos[i].status = "em_andamento"
                   /\ prazos'[i].status \in {"cumprido", "cancelado"}]_vars

\* C7: the due date of a CUMPRIDO or CANCELADO deadline never changes.
C7_DataFatalImutavel ==
    [][\A i \in DOMAIN prazos :
          prazos[i].status \in {"cumprido", "cancelado"}
              => prazos'[i].data_fatal = prazos[i].data_fatal]_vars

\* C8: a sweep of tenant T selects, and calls channel senders for, only
\* notifications of tenant T.
C8_SweepSoDoTenant ==
    /\ \A w \in Workers : \A k \in DOMAIN sweep[w].pendentes :
          notificacoes[sweep[w].pendentes[k]].escritorio_id = sweep[w].escritorio_id
    /\ \A x \in envios :
          notificacoes[x[2]].escritorio_id = sweep[x[1]].escritorio_id

\* C9: a notification's status becomes LIDA only by a step taken from
\* ENVIADA.
C9_LidaSoDeEnviada ==
    [][\A n \in DOMAIN notificacoes :
          (notificacoes'[n].status = "lida" /\ notificacoes[n].status # "lida")
              => notificacoes[n].status = "enviada"]_vars

\* C10: when a sweep processes a notification whose type is disabled in the
\* recipient's stored preference, the notification is ENVIADA afterwards and
\* no channel sender was called.
C10_TipoDesativado ==
    (/\ ultimo.op = "_enviar_notificacao"
     /\ ultimo.esc = notificacoes[ultimo.alvo].escritorio_id
     /\ notificacoes[ultimo.alvo].tipo = "prazo_vencendo"
     /\ \E i \in PrefsDoUsuario(ultimo.esc, notificacoes[ultimo.alvo].usuario_id) :
           ~preferencias[i].prazo_vencendo_enabled)
        => /\ notificacoes[ultimo.alvo].status = "enviada"
           /\ ultimo.canais = {}

\* C11: when a sweep processes a notification whose recipient has push
\* disabled, email enabled and the notification's type enabled, the email
\* sender is called for it and the push sender is not.
C11_SoEmail ==
    (/\ ultimo.op = "_enviar_notificacao"
     /\ ultimo.esc = notificacoes[ultimo.alvo].escritorio_id
     /\ notificacoes[ultimo.alvo].tipo = "prazo_vencendo"
     /\ \E i \in PrefsDoUsuario(ultimo.esc, notificacoes[ultimo.alvo].usuario_id) :
           /\ ~preferencias[i].push_enabled
           /\ preferencias[i].email_enabled
           /\ preferencias[i].prazo_vencendo_enabled)
        => /\ "email" \in ultimo.canais
           /\ "push" \notin ultimo.canais

\* C12: a sweep leaves a notification of an enabled type ENVIADA only if a
\* channel sender was called for it and returned; when none did and fewer
\* than five attempts are recorded, the notification is still PENDENTE.
C12_EnviadaSoComSucesso ==
    (/\ ultimo.op = "_enviar_notificacao"
     /\ ultimo.esc = notificacoes[ultimo.alvo].escritorio_id
     /\ notificacoes[ultimo.alvo].tipo = "prazo_vencendo"
     /\ \A i \in PrefsDoUsuario(ultimo.esc, notificacoes[ultimo.alvo].usuario_id) :
           preferencias[i].prazo_vencendo_enabled)
        => /\ notificacoes[ultimo.alvo].status = "enviada" => ultimo.canais # {}
           /\ (ultimo.canais = {} /\ notificacoes[ultimo.alvo].tentativas < 5)
                 => notificacoes[ultimo.alvo].status = "pendente"

\* the notifications stored for deadline i
NotificacoesDoPrazo(i) ==
    {n \in DOMAIN notificacoes : notificacoes[n].prazo_id = i}

\* C13: after a daily scan of a tenant run on the day a PENDENTE deadline of
\* the tenant is exactly three days before its due date, exactly one
\* approaching-deadline (prazo_vencendo) notification exists for it.
C13_UmaNotificacaoAosTresDias ==
    ultimo.op = "verificar_prazos_e_notificar" =>
        \A i \in DOMAIN prazos :
            (/\ prazos[i].escritorio_id = ultimo.esc
             /\ prazos[i].status = "pendente"
             /\ prazos[i].data_fatal - agora = 3)
                => Cardinality({n \in NotificacoesDoPrazo(i) :
                                    notificacoes[n].tipo = "prazo_vencendo"}) = 1

\* C18: after a daily scan of a tenant, every EM_ANDAMENTO deadline of the
\* tenant whose days before due equal one of the thresholds has a
\* notification.
C18_ScanCobreEmAndamento ==
    ultimo.op = "verificar_prazos_e_notificar" =>
        \A i \in DOMAIN prazos :
            (/\ prazos[i].escritorio_id = ultimo.esc
             /\ prazos[i].status = "em_andamento"
             /\ (prazos[i].data_fatal - agora) \in Limiares)
                => NotificacoesDoPrazo(i) # {}

C14_CriarPrazo ==
    [][(/\ ultimo'.op = "criar_prazo"
        /\ ultimo'.alvo \in DOMAIN processos
        /\ processos[ultimo'.alvo].escritorio_id = ultimo'.esc)
          => IF processos[ultimo'.alvo].is_archived
             THEN /\ ultimo'.resultado = "ProcessoArquivadoError"
                  /\ prazos' = prazos
             ELSE /\ ultimo'.resultado = "ok"
                  /\ Len(prazos') = Len(prazos) + 1
                  /\ SubSeq(prazos', 1, Len(prazos)) = prazos
                  /\ prazos'[Len(prazos')].status = "pendente"
                  /\ prazos'[Len(prazos')].processo_id = ultimo'.alvo]_vars

\* C14 witness: criar_prazo was refused for an archived case.
C14_Testemunha ==
    /\ ultimo.op = "criar_prazo"
    /\ ultimo.alvo \in DOMAIN processos
    /\ processos[ultimo.alvo].is_archived
    /\ ultimo.resultado = "ProcessoArquivadoError"

\* C15: cumprir_prazo by the tenant of a deadline that is PENDENTE or
\* EM_ANDAMENTO succeeds, sets the status CUMPRIDO and records the acting
\* user and the time.
C15_CumprirAbertos ==
    [][\A i \in DOMAIN prazos :
          (/\ prazos[i].status \in {"pendente", "em_andamento"}
           /\ ultimo'.op = "cumprir_prazo"
           /\ ultimo'.alvo = i
           /\ ultimo'.esc = prazos[i].escritorio_id)
              => /\ ultimo'.resultado = "ok"
                 /\ prazos'[i].status = "cumprido"
                 /\ prazos'[i].cumprido_por_id \in Usuarios
                 /\ prazos'[i].data_cumprimento = agora]_vars

\* C16: for every deadline, whatever its status, dias_restantes is the due
\* date minus today, and is_urgente holds exactly when that number is 1, 2
\* or 3.
C16_DiasRestantes ==
    \A i \in DOMAIN prazos :
        /\ dias_restantes(prazos[i]) = prazos[i].data_fatal - agora
        /\ is_urgente(prazos[i]) <=> (prazos[i].data_fatal - agora) \in 1..3

UsuarioDaOperacao(r) ==
    IF r.op = "get_preferencias"
    THEN CHOOSE u \in Usuarios : EscritorioDe(u) = r.esc
    ELSE notificacoes[r.alvo].usuario_id

\* C17: when get_preferencias, or a sweep processing a notification, needs
\* the preference of a (tenant, user) pair that has no stored row, a row
\* with push and email enabled, sms disabled and the types enabled exists
\* for the pair afterwards.
C17_PreferenciaPadrao ==
    [][(/\ ultimo'.op \in {"get_preferencias", "_enviar_notificacao"}
        /\ PrefsDoUsuario(ultimo'.esc, UsuarioDaOperacao(ultimo')) = {})
          => \E i \in DOMAIN preferencias' :
                /\ preferencias'[i].escritorio_id = ultimo'.esc
                /\ preferencias'[i].usuario_id = UsuarioDaOperacao(ultimo')
                /\ preferencias'[i].push_enabled
                /\ preferencias'[i].email_enabled
                /\ ~preferencias'[i].sms_enabled
                /\ preferencias'[i].prazo_vencendo_enabled]_vars

\* C21: the type chosen for the notification of a PENDENTE deadline is
\* prazo_hoje when the due date is today, prazo_vencido when it is past, and
\* never prazo_vencido when it is today or later.
C21_TipoPorDias ==
    (/\ ultimo.op \in {"criar_notificacao_prazo", "notificar_prazo_urgente_task"}
     /\ prazos[ultimo.alvo].status = "pendente")
        => LET dias == prazos[ultimo.alvo].data_fatal - agora IN
           /\ dias = 0 => ultimo.tipo = "prazo_hoje"
           /\ dias < 0 => ultimo.tipo = "prazo_vencido"
           /\ dias >= 0 => ultimo.tipo # "prazo_vencido"

\* C22: when a sweep has processed a notification of its tenant by the
\* in-app channel alone, the notification is ENVIADA and has a sent time.
C22_InAppEnviada ==
    (/\ ultimo.op = "_enviar_notificacao"
     /\ ultimo.esc = notificacoes[ultimo.alvo].escritorio_id
     /\ ultimo.canais = {"in_app"})
        => /\ notificacoes[ultimo.alvo].status = "enviada"
           /\ notificacoes[ultimo.alvo].enviada_em # NuloInt

\* C23: a sweep step that calls a channel sender for a notification adds
\* exactly one to its tentativas, and no step lowers any tentativas.
C23_TentativasPorSweep ==
    [][/\ (ultimo'.op = "_enviar_notificacao" /\ ultimo'.canais # {})
            => notificacoes'[ultimo'.alvo].tentativas
                  = notificacoes[ultimo'.alvo].tentativas + 1
       /\ \A n \in DOMAIN notificacoes :
             notificacoes'[n].tentativas >= notificacoes[n].tentativas]_vars

\* the notifications a running sweep selected: those still to be processed
\* and those already processed
Selecionadas(w) ==
    {sweep[w].pendentes[k] : k \in DOMAIN sweep[w].pendentes} \cup sweep[w].processadas

\* C24: an exception raised while one selected notification is delivered
\* does not leave processar_pendentes: the sweep goes on with the rest of
\* its batch, returns only when the batch is empty, and returns normally.
C24_SweepIsolaErros ==
    [][\A w \in Workers :
          sweep[w].pc = "running" =>
             /\ sweep'[w].pc = "running" =>
                   /\ Selecionadas(w)' = Selecionadas(w)
                   /\ sweep[w].processadas \subseteq sweep'[w].processadas
             /\ sweep'[w].pc = "idle" =>
                   /\ sweep[w].pendentes = <<>>
                   /\ ultimo'.resultado = "ok"]_vars

\* C24 witness: a sweep processed a second notification after the delivery
\* of an earlier one of its batch had raised.
C24_Testemunha ==
    /\ ultimo.op = "_enviar_notificacao"
    /\ \E w \in Workers : \E n \in sweep[w].processadas :
          /\ n # ultimo.alvo
          /\ ultimo.alvo \in sweep[w].processadas
          /\ notificacoes[n].status = "falha"

\* C25: in one daily scan of a tenant, every PENDENTE deadline of the tenant
\* that is due within the window is reached by the scan, also when the
\* generation for another deadline of the tenant failed.
C25_ScanIsolaErros ==
    ultimo.op = "verificar_prazos_e_notificar" =>
        \A i \in DOMAIN prazos :
            (/\ prazos[i].escritorio_id = ultimo.esc
             /\ prazos[i].status = "pendente"
             /\ prazos[i].data_fatal - agora <= 7)
                => i \in ultimo.itens

\* C26: every notification a sweep selects is, at the time of the selection,
\* PENDENTE and either not scheduled or scheduled for now or earlier.
C26_SoPendentesVencidas ==
    [][\A w \in Workers :
          (sweep[w].pc = "idle" /\ sweep'[w].pc = "running") =>
             \A k \in DOMAIN sweep'[w].pendentes :
                LET n == notificacoes[sweep'[w].pendentes[k]] IN
                /\ n.status = "pendente"
                /\ n.agendada_para = NuloInt \/ n.agendada_para <= agora]_vars

\* C26 witness: a sweep has just selected its batch while the table holds a
\* notification that is scheduled for later and one that is not PENDENTE.
C26_Testemunha ==
    /\ ultimo.op = "get_pendentes_envio"
    /\ \E n \in DOMAIN notificacoes :
          notificacoes[n].status = "pendente" /\ notificacoes[n].agendada_para > agora
    /\ \E n \in DOMAIN notificacoes : notificacoes[n].status \in {"lida", "falha"}

\* C27: a notification that is LIDA stays LIDA in every step.
C27_LidaFinal ==
    [][\A n \in DOMAIN notificacoes :
          notificacoes[n].status = "lida" => notificacoes'[n].status = "lida"]_vars

\* C28: whatever the interleaving of get_or_create, atualizar_preferencias
\* and atualizar_fcm_token calls, a (tenant, user) pair has at most one
\* preference row.
C28_UmaPreferenciaPorUsuario ==
    \A e \in Escritorios, u \in Usuarios : Cardinality(PrefsDoUsuario(e, u)) <= 1

\* C29: with the sweep run again and again, every PENDENTE notification that
\* is not scheduled for later is eventually ENVIADA or FALHA.
C29_PendenteAcabaSaindo ==
    \A n \in NotifIds :
        (/\ n \in DOMAIN notificacoes
         /\ notificacoes[n].status = "pendente"
         /\ (notificacoes[n].agendada_para = NuloInt
                \/ notificacoes[n].agendada_para <= agora))
            ~> (/\ n \in DOMAIN notificacoes
                /\ notificacoes[n].status \in {"enviada", "falha"})

\* C30: every document whose status_ia is PROCESSANDO eventually has status_ia
\* CONCLUIDO or ERRO, however the processing attempt ends.
C30_ProcessandoTermina ==
    \A i \in DocIds :
        (i \in DOMAIN documentos /\ documentos[i].status_ia = "processando")
            ~> (/\ i \in DOMAIN documentos
                /\ documentos[i].status_ia \in {"concluido", "erro"})

====
